---- MODULE Spec2Model ----
(***************************************************************************)
(* Model of blog/views.py: the three request handlers post_list,           *)
(* post_detail and post_create over the BlogPost table.                    *)
(*                                                                         *)
(* The table is a set of rows, the database's primary-key sequence is a    *)
(* counter, and every handler is one atomic action that records the        *)
(* request it served and the response it returned.  BlogPost (.models)     *)
(* and BlogPostForm (.forms) are not part of views.py; they are modelled   *)
(* as a model with an auto-assigned primary key, a creation time and one   *)
(* required text field, and a model form over that field.                  *)
(***************************************************************************)
EXTENDS Integers, Sequences, FiniteSets, TLC

VARIABLES store, sequence, submissions, request, response

vars == <<store, sequence, submissions, request, response>>

\* ---------------------------------------------------------------- bounds
MaxPosts == 3
MaxTime == 1
MaxTitleLen == 2

\* ---------------------------------------------------------------- inputs
\* Values the clock can show when a row is inserted.
Times == 0..MaxTime

\* Text values: strings over a one-letter alphabet, the empty string included.
Titles == {[i \in 1..n |-> "a"] : n \in 0..MaxTitleLen}

\* request.POST: a dictionary of submitted fields, given as a set of
\* <<field, value>> pairs; the empty dictionary is a submission without fields.
QueryDicts == {{}} \cup {{<<"title", t>>} : t \in Titles}

Methods == {"GET", "POST", "PUT"}

\* Identifiers a request path can carry: every assigned one and some that
\* never are.
Pks == 0..(MaxPosts + 1)

\* ---------------------------------------------------------------- BlogPostForm
EmptyQueryDict == {}

\* request.POST: the submitted fields of a POST request, empty for any other
\* method.
QueryDict(method, body) == IF method = "POST" THEN body ELSE EmptyQueryDict

\* BlogPostForm(request.POST) is bound, BlogPostForm() is not; no form has
\* been validated when it is constructed.
BlogPostForm(data, bound) ==
    [is_bound |-> bound, data |-> data, validated |-> FALSE, errors |-> {}]

\* The fields of the submission that fail validation: the text field is
\* required, so a missing or empty value is an error.
field_errors(data) ==
    IF \E kv \in data : kv[1] = "title" /\ Len(kv[2]) > 0 THEN {} ELSE {"title"}

\* Validation of a form: an unbound form collects no errors.
full_clean(form) ==
    [form EXCEPT !.validated = TRUE,
                 !.errors = IF form.is_bound THEN field_errors(form.data) ELSE {}]

is_valid(form) == form.is_bound /\ full_clean(form).errors = {}

cleaned_title(form) == (CHOOSE kv \in form.data : kv[1] = "title")[2]

\* ---------------------------------------------------------------- BlogPost
\* A primary key taken from the clock instead of the table's sequence.
save_pk_from_clock(form, seq, now) ==
    [pk |-> now + 1, created_at |-> now, title |-> cleaned_title(form)]

\* The row an insert writes: the primary key comes from the table's
\* sequence, the creation time from the clock.
save(form, seq, now) ==
    [pk |-> seq, created_at |-> now, title |-> cleaned_title(form)]

\* ---------------------------------------------------------------- shortcuts
render(template, context) ==
    [kind |-> "render", template |-> template, context |-> context]

redirect(to, pk) == [kind |-> "redirect", to |-> to, pk |-> pk]

Http404 == [kind |-> "404"]

\* A lookup that also accepts rows with a larger primary key.
get_object_or_404_gte(objects, pk) == {p \in objects : p.pk >= pk}

\* The rows get_object_or_404 can return for pk; none means Http404.
get_object_or_404(objects, pk) == {p \in objects : p.pk = pk}

\* The rows in ascending order of creation time.
RECURSIVE order_by_created_at_asc(_)
order_by_created_at_asc(objects) ==
    IF objects = {}
    THEN {<<>>}
    ELSE UNION {{<<p>> \o rest : rest \in order_by_created_at_asc(objects \ {p})} :
                p \in {p \in objects :
                          \A q \in objects : p.created_at <= q.created_at}}

\* Every order in which the database may return the rows for
\* order_by("-created_at"): a newest row first, then the remaining rows in
\* the same way; rows of equal creation time come in any order.
RECURSIVE order_by_created_at_desc(_)
order_by_created_at_desc(objects) ==
    IF objects = {}
    THEN {<<>>}
    ELSE UNION {{<<p>> \o rest : rest \in order_by_created_at_desc(objects \ {p})} :
                p \in {p \in objects :
                          \A q \in objects : p.created_at >= q.created_at}}

\* ---------------------------------------------------------------- state
Init ==
    /\ store = {}
    /\ sequence = 1
    /\ submissions = <<>>
    /\ request = [view |-> "none"]
    /\ response = [kind |-> "none"]

\* ---------------------------------------------------------------- post_list
post_list ==
    /\ \E posts \in order_by_created_at_desc(store) :
          response' = render("blog/index.html", [posts |-> posts])
    /\ request' = [view |-> "post_list"]
    /\ UNCHANGED <<store, sequence, submissions>>

\* ---------------------------------------------------------------- post_detail
\* A lookup that yields None instead of raising, the template rendered anyway.
post_detail_renders_none(pk) ==
    /\ LET found == get_object_or_404(store, pk) IN
          IF found = {}
          THEN response' = render("blog/detail.html", [post |-> "None"])
          ELSE \E post \in found :
                  response' = render("blog/detail.html", [post |-> post])
    /\ request' = [view |-> "post_detail", pk |-> pk]
    /\ UNCHANGED <<store, sequence, submissions>>

\* A detail view that deletes the row it shows.
post_detail_deletes(pk) ==
    /\ LET found == get_object_or_404(store, pk) IN
          IF found = {}
          THEN response' = Http404 /\ store' = store
          ELSE \E post \in found :
                  /\ response' = render("blog/detail.html", [post |-> post])
                  /\ store' = store \ {post}
    /\ request' = [view |-> "post_detail", pk |-> pk]
    /\ UNCHANGED <<sequence, submissions>>

post_detail(pk) ==
    /\ LET found == get_object_or_404(store, pk) IN
          IF found = {}
          THEN response' = Http404
          ELSE \E post \in found :
                  response' = render("blog/detail.html", [post |-> post])
    /\ request' = [view |-> "post_detail", pk |-> pk]
    /\ UNCHANGED <<store, sequence, submissions>>

\* ---------------------------------------------------------------- post_create
\* A redirect that names the identifier before the new one.
create_valid_redirects_to_previous(form, now) ==
    LET post == save(form, sequence, now) IN
    /\ Cardinality(store) < MaxPosts
    /\ store' = store \cup {post}
    /\ sequence' = sequence + 1
    /\ response' = redirect("blog:post_detail", post.pk - 1)
    /\ submissions' = Append(submissions,
                             [POST |-> form.data, pk |-> post.pk,
                              response |-> response'])

\* A save that reuses the row of an earlier post with the same content
\* (get_or_create).
create_valid_get_or_create(form, now) ==
    LET post == save(form, sequence, now)
        same == {p \in store : p.title = post.title}
    IN  IF same = {}
        THEN /\ Cardinality(store) < MaxPosts
             /\ store' = store \cup {post}
             /\ sequence' = sequence + 1
             /\ response' = redirect("blog:post_detail", post.pk)
             /\ submissions' = Append(submissions,
                                      [POST |-> form.data, pk |-> post.pk,
                                       response |-> response'])
        ELSE \E p \in same :
             /\ Len(submissions) < MaxPosts
             /\ response' = redirect("blog:post_detail", p.pk)
             /\ submissions' = Append(submissions,
                                      [POST |-> form.data, pk |-> p.pk,
                                       response |-> response'])
             /\ UNCHANGED <<store, sequence>>

\* A save that replaces the earlier posts with the same content
\* (update_or_create).
create_valid_update_or_create(form, now) ==
    LET post == save(form, sequence, now) IN
    /\ Cardinality(store) < MaxPosts
    /\ store' = {p \in store : p.title # post.title} \cup {post}
    /\ sequence' = sequence + 1
    /\ response' = redirect("blog:post_detail", post.pk)
    /\ submissions' = Append(submissions,
                             [POST |-> form.data, pk |-> post.pk,
                              response |-> response'])

\* The valid branch: form.save() inserts one row, the response redirects to
\* the detail page of that row.  submissions keeps, for every saved
\* submission, what was submitted, the row's key and the response.
create_valid(form, now) ==
    LET post == save(form, sequence, now) IN
    /\ Cardinality(store) < MaxPosts
    /\ store' = store \cup {post}
    /\ sequence' = sequence + 1
    /\ response' = redirect("blog:post_detail", post.pk)
    /\ submissions' = Append(submissions,
                             [POST |-> form.data, pk |-> post.pk,
                              response |-> response'])

\* A failed submission answered with a fresh form.
create_invalid_fresh_form(form) ==
    /\ response' = render("blog/create.html",
                          [form |-> BlogPostForm(EmptyQueryDict, FALSE)])
    /\ UNCHANGED <<store, sequence, submissions>>

\* The invalid branch falls through to the final render with the form that
\* was validated.
create_invalid(form) ==
    /\ response' = render("blog/create.html", [form |-> form])
    /\ UNCHANGED <<store, sequence, submissions>>

\* The display branch: a new unbound form, rendered.
create_display ==
    /\ response' = render("blog/create.html",
                          [form |-> BlogPostForm(EmptyQueryDict, FALSE)])
    /\ UNCHANGED <<store, sequence, submissions>>

\* A handler that takes every method but GET for a submission.
post_create_not_get(method, body, now) ==
    LET POST == QueryDict(method, body) IN
    /\ request' = [view |-> "post_create", method |-> method, POST |-> POST]
    /\ IF method # "GET"
       THEN LET form == BlogPostForm(POST, TRUE) IN
            IF is_valid(form)
            THEN create_valid(full_clean(form), now)
            ELSE create_invalid(full_clean(form))
       ELSE create_display

post_create(method, body, now) ==
    LET POST == QueryDict(method, body) IN
    /\ request' = [view |-> "post_create", method |-> method, POST |-> POST]
    /\ IF method = "POST"
       THEN LET form == BlogPostForm(POST, TRUE) IN
            IF is_valid(form)
            THEN create_valid(full_clean(form), now)
            ELSE create_invalid(full_clean(form))
       ELSE create_display

\* ---------------------------------------------------------------- requests
ListRequest == post_list

DetailRequest == \E pk \in Pks : post_detail(pk)

CreateRequest ==
    \E m \in Methods, body \in QueryDicts, now \in Times : post_create(m, body, now)

Next == ListRequest \/ DetailRequest \/ CreateRequest

Spec == Init /\ [][Next]_vars

\* ---------------------------------------------------------------- properties
Submitted(r) == r.view = "post_create" /\ r.method = "POST"

ValidData(data) == is_valid(BlogPostForm(data, TRUE))

HasPk(objects, pk) == \E p \in objects : p.pk = pk

\* C1: a POST to post_create with valid data adds exactly one post, keeps
\* every earlier post, and answers with a redirect to blog:post_detail whose
\* pk is the identifier of the added post and of no earlier post.
C1_ValidCreatePersistsOneAndRedirects ==
    [][(Submitted(request') /\ ValidData(request'.POST)) =>
          /\ Cardinality(store') = Cardinality(store) + 1
          /\ store \subseteq store'
          /\ response'.kind = "redirect"
          /\ response'.to = "blog:post_detail"
          /\ \E p \in store' \ store : p.pk = response'.pk
          /\ ~HasPk(store, response'.pk)]_vars

C1_Witness ==
    /\ Submitted(request)
    /\ ValidData(request.POST)
    /\ response.kind = "redirect"
    /\ Cardinality(store) >= 2

\* C2: a POST to post_create with invalid data leaves the store unchanged,
\* issues no redirect, and renders blog/create.html with the bound form of
\* the submitted data, validated and carrying its errors.
C2_InvalidCreateRerendersForm ==
    [][(Submitted(request') /\ ~ValidData(request'.POST)) =>
          /\ store' = store
          /\ sequence' = sequence
          /\ response'.kind = "render"
          /\ response'.template = "blog/create.html"
          /\ response'.context.form.is_bound
          /\ response'.context.form.data = request'.POST
          /\ response'.context.form.validated
          /\ response'.context.form.errors # {}]_vars

C2_Witness ==
    /\ Submitted(request)
    /\ ~ValidData(request.POST)
    /\ response.kind = "render"
    /\ response.context.form.errors = {"title"}
    /\ store # {}

\* C3: post_list answers with every stored post exactly once, creation times
\* non-increasing from first to last.
C3_ListAllNewestFirst ==
    request.view = "post_list" =>
        /\ response.kind = "render"
        /\ response.template = "blog/index.html"
        /\ LET posts == response.context.posts IN
              /\ Len(posts) = Cardinality(store)
              /\ {posts[i] : i \in DOMAIN posts} = store
              /\ \A i, j \in DOMAIN posts : i # j => posts[i] # posts[j]
              /\ \A i, j \in DOMAIN posts :
                    i < j => posts[i].created_at >= posts[j].created_at

\* A listing of posts whose creation times do not follow their identifiers.
C3_Witness ==
    /\ request.view = "post_list"
    /\ Len(response.context.posts) >= 2
    /\ \E p, q \in store : p.pk < q.pk /\ p.created_at > q.created_at

\* C4: post_detail for an identifier that matches no stored post answers
\* not-found, renders nothing, and leaves the store unchanged.
C4_DetailMissingIsNotFound ==
    [][(request'.view = "post_detail" /\ ~HasPk(store, request'.pk)) =>
          /\ response'.kind = "404"
          /\ store' = store]_vars

C4_Witness ==
    /\ request.view = "post_detail"
    /\ ~HasPk(store, request.pk)
    /\ response.kind = "404"
    /\ store # {}

\* C5: post_detail for the identifier of a stored post renders
\* blog/detail.html with the post of that identifier, carrying the content it
\* was submitted with, and never answers not-found.
C5_DetailExistingRendersThatPost ==
    [][(request'.view = "post_detail" /\ HasPk(store, request'.pk)) =>
          /\ response'.kind = "render"
          /\ response'.template = "blog/detail.html"
          /\ response'.context.post \in store
          /\ response'.context.post.pk = request'.pk
          /\ \E i \in DOMAIN submissions :
                /\ submissions[i].pk = request'.pk
                /\ <<"title", response'.context.post.title>> \in submissions[i].POST]_vars

\* A detail page of a post that is neither the only one nor the last one.
C5_Witness ==
    /\ request.view = "post_detail"
    /\ response.kind = "render"
    /\ \E p \in store : p.pk > request.pk

\* C6: two saved submissions of the same data have distinct identifiers, each
\* identifier resolves to a stored post with the submitted content, and each
\* response redirects to the detail page of its own post.
C6_ResubmissionCreatesSecondPost ==
    \A i, j \in DOMAIN submissions :
       (i # j /\ submissions[i].POST = submissions[j].POST) =>
          /\ submissions[i].pk # submissions[j].pk
          /\ \E p \in store :
                /\ p.pk = submissions[i].pk
                /\ <<"title", p.title>> \in submissions[i].POST
          /\ submissions[i].response = redirect("blog:post_detail", submissions[i].pk)

C6_Witness ==
    \E i, j \in DOMAIN submissions :
       /\ i < j
       /\ submissions[i].POST = submissions[j].POST
       /\ Cardinality(store) >= 2

\* C7: no two stored posts share an identifier.
C7_IdentifiersUnique ==
    \A p, q \in store : p.pk = q.pk => p = q

\* Two posts that differ in nothing but the identifier, after reads.
C7_Witness ==
    /\ \E p, q \in store :
          p # q /\ p.title = q.title /\ p.created_at = q.created_at
    /\ request.view # "post_create"

\* C8: a stored post stays stored, unchanged, and the store changes only when
\* a POST to post_create with valid data adds one post.
C8_PostsPermanent ==
    [][/\ store \subseteq store'
       /\ store' # store =>
             /\ Submitted(request')
             /\ ValidData(request'.POST)
             /\ Cardinality(store' \ store) = 1]_vars

C8_Witness ==
    /\ Cardinality(store) >= 2
    /\ request.view = "post_list"
    /\ \E p, q \in store : p # q /\ p.title = q.title

\* C9: a request to post_create with a method other than POST renders
\* blog/create.html with a new unbound, unvalidated, empty form, persists
\* nothing and issues no redirect.
C9_DisplayRendersUnboundForm ==
    [][(request'.view = "post_create" /\ request'.method # "POST") =>
          /\ response'.kind = "render"
          /\ response'.template = "blog/create.html"
          /\ ~response'.context.form.is_bound
          /\ ~response'.context.form.validated
          /\ response'.context.form.data = EmptyQueryDict
          /\ response'.context.form.errors = {}
          /\ store' = store
          /\ sequence' = sequence]_vars

C9_Witness ==
    /\ request.view = "post_create"
    /\ request.method = "PUT"
    /\ response.kind = "render"
    /\ ~response.context.form.is_bound
    /\ store # {}

\* C10: post_list and post_detail change neither the stored posts nor the
\* sequence the next post's identifier comes from.
C10_ReadsChangeNothing ==
    [][request'.view \in {"post_list", "post_detail"} =>
          /\ store' = store
          /\ sequence' = sequence
          /\ submissions' = submissions]_vars

C10_Witness ==
    /\ request.view = "post_detail"
    /\ response.kind = "render"
    /\ Cardinality(store) >= 2
    /\ sequence > 2

====
